---- MODULE Spec2Model ----
(***************************************************************************)
(* Model of the Elasticsearch role / user reconciliation code              *)
(* (plugins/module_utils/elasticsearch_role.py, elasticsearch_user.py)     *)
(* and of the client/server compatibility check (plugins/module_utils/     *)
(* api.py).  One invocation of a module is one run of Role.__init__ or     *)
(* User.__init__; every remote call it makes is one atomic step, so other  *)
(* actors on the same cluster can act between two calls.                   *)
(***************************************************************************)
EXTENDS Integers, Sequences, FiniteSets, TLC

VARIABLES
    kind,       \* "role" or "user": which module this run is about
    esLib,      \* elasticsearch.__version__ of the installed library, or NoLib
    serverNum,  \* info['version']['number'] reported by the server
    remote,     \* the cluster's security directory: name -> stored record or Absent
    seq,        \* number of credential writes the cluster has seen (hash source)
    others,     \* number of steps other actors have taken
    pc,         \* per process: position inside Role/User.__init__
    args,       \* per process: the module parameters of the current invocation
    loc,        \* per process: the locals user_exists, pre_role / pre_user and res
    result,     \* per process: self.result
    fatal,      \* per process: how the invocation died, or NoFatal
    calls,      \* per process: remote calls issued by the current invocation
    sent,       \* per process: keyword arguments of the put call, or None
    meta,       \* per process: bookkeeping about the current invocation
    prev,       \* per process: summary of the previous invocation, or None
    compat,     \* outcome of Api.check_version_compatibility, or None
    conn,       \* connection parameters handed to Api.new_client_*, or None
    client      \* outcome of Api.new_client_basic_auth / new_client_api_key, or None

vars == <<kind, esLib, serverNum, remote, seq, others, pc, args, loc, result,
          fatal, calls, sent, meta, prev, compat, conn, client>>

-----------------------------------------------------------------------------
(* Bounds of the model *)

MaxInv == 2       \* invocations a process runs one after the other
MaxOther == 1     \* steps taken by other actors on the cluster

Procs == {1, 2}
Kinds == {"role", "user"}
Names == {"n1", "n2"}
States == {"present", "absent"}

\* Python's None where an object is expected, and where a scalar is expected
None == [none |-> TRUE]
PyNone == "None"
\* no entry under a name, no library installed, no 'msg' / 'diff' key, still alive
Absent == [absent |-> TRUE]
NoLib == [type |-> "none", v |-> <<>>]
NoMsg == <<>>
NoDiff == None
NoError == ""
NoFatal == [how |-> "none", msg |-> <<>>, err |-> NoError]
EmptyMeta == "{}"

\* values of the role parameters cluster and indices
Clusters == {"c1", "c2"}
IndicesVals == {"i1"}
\* values of the user parameters
RoleLists == {"ra", "rb"}
FullNames == {"f1"}
Emails == {"e1"}
Enableds == {TRUE}
Passwords == {"p1", "p2"}
UpdatePasswords == {"always", "on_create"}
Metadatas == {EmptyMeta, "m1"}

\* what a failing remote call raises
Errors == {"DirectoryUnavailable"}
NotFound == "NotFound"

-----------------------------------------------------------------------------
(* Version strings and parse_version (api.py) *)

DigitValue(c) ==
    CASE c = "0" -> 0 [] c = "1" -> 1 [] c = "2" -> 2 [] c = "3" -> 3
      [] c = "4" -> 4 [] c = "5" -> 5 [] c = "6" -> 6 [] c = "7" -> 7
      [] c = "8" -> 8 [] c = "9" -> 9

\* str.split('.')[0]: the characters before the first dot
RECURSIVE BeforeFirstDot(_)
BeforeFirstDot(s) ==
    IF s = <<>> \/ Head(s) = "." THEN <<>>
    ELSE <<Head(s)>> \o BeforeFirstDot(Tail(s))

\* int() of a string of decimal digits
RECURSIVE ToInt(_)
ToInt(s) ==
    IF s = <<>> THEN 0
    ELSE 10 * ToInt(SubSeq(s, 1, Len(s) - 1)) + DigitValue(s[Len(s)])

Tup(a, b, c) == [type |-> "tuple", v |-> <<a, b, c>>]
Str(s) == [type |-> "str", v |-> s]

\* variant: only the first character of the string is read
parse_version_first_digit(version) ==
    IF version.type = "tuple" THEN version.v[1]
    ELSE DigitValue(version.v[1])

parse_version(version) ==
    IF version.type = "tuple" THEN version.v[1]
    ELSE ToInt(BeforeFirstDot(version.v))

\* ES_CLIENT_VERSION, set once at import time
ES_CLIENT_VERSION == IF esLib = NoLib THEN 0 ELSE parse_version(esLib)
HAS_ELASTICSEARCH == esLib # NoLib

get_server_version == parse_version(serverNum)

-----------------------------------------------------------------------------
(* Api.check_version_compatibility (api.py) *)

IncompatibleMsg(c, s) ==
    <<"Incompatible versions: elasticsearch-py ", ToString(c),
      ".x cannot connect to Elasticsearch ", ToString(s),
      ".x. Install 'elasticsearch>=8,<9' or upgrade your Elasticsearch server to 9.x first.">>

ForwardCompatibleMsg(c, s) ==
    <<"elasticsearch-py ", ToString(c),
      ".x is forward-compatible with Elasticsearch ", ToString(s), ".x. ",
      "Consider upgrading to 'elasticsearch>=9,<10' for full ES 9.x feature support.">>

FullyCompatibleMsg(c, s) ==
    <<"elasticsearch-py ", ToString(c), ".x is fully compatible with Elasticsearch ",
      ToString(s), ".x.">>

NotVerifiedMsg(c, s) ==
    <<"elasticsearch-py ", ToString(c), ".x with Elasticsearch ", ToString(s),
      ".x - ", "compatibility not verified.">>

CompatResult(c, s, ok, m) ==
    [client_version |-> c, server_version |-> s, compatible |-> ok, message |-> m]

Returned(r) == [raised |-> FALSE, error |-> NoError, message |-> NoMsg, result |-> r]
Raised(err, m) == [raised |-> TRUE, error |-> err, message |-> m, result |-> None]

\* variant: the incompatible pair is reported in the result instead of raised
check_version_compatibility_no_raise(client_ver, server_ver) ==
    IF client_ver = 9 /\ server_ver = 8
        THEN Returned(CompatResult(client_ver, server_ver, FALSE,
                                   IncompatibleMsg(client_ver, server_ver)))
    ELSE IF client_ver = 8 /\ server_ver = 9
        THEN Returned(CompatResult(client_ver, server_ver, TRUE,
                                   ForwardCompatibleMsg(client_ver, server_ver)))
    ELSE IF client_ver = server_ver
        THEN Returned(CompatResult(client_ver, server_ver, TRUE,
                                   FullyCompatibleMsg(client_ver, server_ver)))
    ELSE Returned(CompatResult(client_ver, server_ver, TRUE,
                               NotVerifiedMsg(client_ver, server_ver)))

\* variant: the equal-versions branch is tested before the 8/9 branch is reached
\* and the 8/9 advisory is lost
check_version_compatibility_no_advisory(client_ver, server_ver) ==
    IF client_ver = 9 /\ server_ver = 8
        THEN Raised("ApiError", IncompatibleMsg(client_ver, server_ver))
    ELSE IF client_ver = server_ver
        THEN Returned(CompatResult(client_ver, server_ver, TRUE,
                                   FullyCompatibleMsg(client_ver, server_ver)))
    ELSE Returned(CompatResult(client_ver, server_ver, TRUE,
                               NotVerifiedMsg(client_ver, server_ver)))

\* variant: the equal-versions branch is missing
check_version_compatibility_same_as_other(client_ver, server_ver) ==
    IF client_ver = 9 /\ server_ver = 8
        THEN Raised("ApiError", IncompatibleMsg(client_ver, server_ver))
    ELSE IF client_ver = 8 /\ server_ver = 9
        THEN Returned(CompatResult(client_ver, server_ver, TRUE,
                                   ForwardCompatibleMsg(client_ver, server_ver)))
    ELSE Returned(CompatResult(client_ver, server_ver, TRUE,
                               NotVerifiedMsg(client_ver, server_ver)))

check_version_compatibility(client_ver, server_ver) ==
    IF client_ver = 9 /\ server_ver = 8
        THEN Raised("ApiError", IncompatibleMsg(client_ver, server_ver))
    ELSE IF client_ver = 8 /\ server_ver = 9
        THEN Returned(CompatResult(client_ver, server_ver, TRUE,
                                   ForwardCompatibleMsg(client_ver, server_ver)))
    ELSE IF client_ver = server_ver
        THEN Returned(CompatResult(client_ver, server_ver, TRUE,
                                   FullyCompatibleMsg(client_ver, server_ver)))
    ELSE Returned(CompatResult(client_ver, server_ver, TRUE,
                               NotVerifiedMsg(client_ver, server_ver)))

-----------------------------------------------------------------------------
(* The remote security API as the modules use it: get_role()/get_user()    *)
(* list every entry, get_*(name) returns {name: entry} or raises NotFound, *)
(* put_* creates or replaces and answers created, delete_* answers found.  *)

RoleEntry(c, i) == [cluster |-> c, indices |-> i]

UserEntry(rs, fn, em, en, md, pw, h) ==
    [roles |-> rs, full_name |-> fn, email |-> em, enabled |-> en,
     metadata |-> md, password |-> pw, password_hash |-> h]

\* what a get shows of a stored entry: the credential itself is never shown
Snapshot(k, n, e) ==
    IF k = "role" THEN e
    ELSE [username |-> n, roles |-> e.roles, full_name |-> e.full_name,
          email |-> e.email, enabled |-> e.enabled, metadata |-> e.metadata,
          password_hash |-> e.password_hash]

RemoteList(dir) == {n \in Names : dir[n] # Absent}

RemoteGet(dir, k, n) == (n :> Snapshot(k, n, dir[n]))

HasPassword(kwargs) == "password" \in DOMAIN kwargs

\* put_user without a password is only accepted for an existing user
RemotePutAccepted(dir, k, n, kwargs) ==
    k = "user" /\ dir[n] = Absent => HasPassword(kwargs)

RemotePut(dir, k, n, kwargs, s) ==
    IF k = "role"
        THEN [dir EXCEPT ![n] = RoleEntry(kwargs.cluster, kwargs.indices)]
    ELSE [dir EXCEPT ![n] =
            UserEntry(kwargs.roles, kwargs.full_name, kwargs.email, kwargs.enabled,
                      EmptyMeta,
                      IF HasPassword(kwargs) THEN kwargs.password ELSE dir[n].password,
                      IF HasPassword(kwargs) THEN s + 1 ELSE dir[n].password_hash)]

RemotePutSeq(k, kwargs, s) ==
    IF k = "user" /\ HasPassword(kwargs) THEN s + 1 ELSE s

\* the put response: put_role answers {'role': {'created': b}}, put_user {'created': b}
PutResponse(k, created) ==
    IF k = "role" THEN [role |-> [created |-> created]] ELSE [created |-> created]

\* variant: a delete is answered but the entry stays
RemoteDelete_leaves_entry(dir, n) == dir
RemoteDelete(dir, n) == [dir EXCEPT ![n] = Absent]
DeleteResponse(dir, n) == [found |-> dir[n] # Absent]

-----------------------------------------------------------------------------
(* Module parameters *)

RoleWants == [cluster : Clusters, indices : IndicesVals]

UserWants ==
    [full_name : FullNames, password : Passwords, email : Emails, roles : RoleLists,
     enabled : Enableds, update_password : UpdatePasswords]

Wants(k) == IF k = "role" THEN RoleWants ELSE UserWants

\* the name the runs are about; the other names are bystanders
Targets == {"n1"}

ArgsOf(k) ==
    [name : Targets, state : States, check_mode : BOOLEAN, diff : BOOLEAN,
     want : Wants(k)]

\* the parameters of a run that follows a run with parameters a: the same task
\* again, the same with check mode toggled, with the other target state, or
\* (user) with another password
FollowUps(k, a) ==
    {a, [a EXCEPT !.check_mode = ~@],
        [a EXCEPT !.state = IF @ = "present" THEN "absent" ELSE "present"]}
    \cup (IF k = "user"
            THEN {[a EXCEPT !.want.password = pw] : pw \in Passwords}
          ELSE {})

\* entries the cluster can hold
StoredEntries(k, s) ==
    IF k = "role" THEN {RoleEntry(c, i) : c \in Clusters, i \in IndicesVals}
    ELSE {UserEntry(rs, fn, em, en, md, pw, s) :
            rs \in RoleLists, fn \in FullNames, em \in Emails, en \in Enableds,
            md \in Metadatas, pw \in Passwords}

\* entries the cluster holds at the start, and the bystanders' entry
InitEntries(k) ==
    {e \in StoredEntries(k, 0) : k = "user" => e.metadata = EmptyMeta /\ e.password = "p1"}
Bystander(k) ==
    IF k = "role" THEN RoleEntry("c1", "i1")
    ELSE UserEntry("ra", "f1", "e1", TRUE, EmptyMeta, "p1", 0)

\* entries another actor writes
OtherEntries(k, s) ==
    {e \in StoredEntries(k, s) : k = "user" => e.metadata = "m1" /\ e.password = "p1"}

-----------------------------------------------------------------------------
(* Messages.  A message is the sequence of the pieces it is formatted from. *)

KindPlural(k) == IF k = "role" THEN "roles" ELSE "users"

ImportErrorMsg ==
    <<"The 'elasticsearch' Python library is required. ",
      "Install it with: pip install 'elasticsearch>=8,<9' (for ES 8.x) ",
      "or 'elasticsearch>=9,<10' (for ES 9.x)">>

ListFailMsg(k, e) == <<"Failed to get ", KindPlural(k), ": ", e>>
DeleteFailMsg(k, n, e) == <<"Failed to delete ", k, " '", n, "': ", e>>
PutFailMsg(k, n, e) == <<"Failed to create/update ", k, " '", n, "': ", e>>

WouldBeDeleted(n) == <<n, " would be deleted">>
HasBeenDeleted(n) == <<n, " has been deleted">>
WouldBeCreated(n) == <<n, " would be created">>
WouldBeUpdated(n) == <<n, " would be updated">>
HasBeenCreated(n) == <<n, " has been created">>
HasBeenUpdated(n) == <<n, " has been updated">>

\* str(x) of a response body
PyStr(x) == <<"str", x>>

InitResult == [changed |-> FALSE, msg |-> NoMsg, diff |-> NoDiff]
\* variant: changed is set without a message
Changed_without_message(m) == [changed |-> TRUE, msg |-> NoMsg, diff |-> NoDiff]
Changed(m) == [changed |-> TRUE, msg |-> m, diff |-> NoDiff]

\* module.fail_json(msg=...) and an exception nobody catches both end the process
FailJson(m, e) == [how |-> "fail_json", msg |-> m, err |-> e]
Uncaught(e) == [how |-> "exception", msg |-> <<e>>, err |-> e]

-----------------------------------------------------------------------------
(* The code of handle_absent / handle_present between two remote calls.    *)
(* Each operator answers where the invocation goes next and self.result.   *)

Goto(l, r) == [pc |-> l, result |-> r]

\* variant: the delete is sent without looking the name up in the listing
AfterListingAbsent_skips_listing_test(a, listing) ==
    IF a.check_mode THEN Goto("done", Changed(WouldBeDeleted(a.name)))
    ELSE Goto("delete", InitResult)

\* variant: check mode is not looked at before the delete
AfterListingAbsent_ignores_check_mode(a, listing) ==
    IF a.name \notin listing THEN Goto("done", InitResult)
    ELSE Goto("delete", InitResult)

\* variant: a listed name is reported as deleted on the listing's word
AfterListingAbsent_trusts_listing(a, listing) ==
    IF a.name \notin listing THEN Goto("done", InitResult)
    ELSE IF a.check_mode THEN Goto("done", Changed(WouldBeDeleted(a.name)))
    ELSE Goto("done", Changed(HasBeenDeleted(a.name)))

\* handle_absent after the listing
AfterListingAbsent(a, listing) ==
    IF a.name \notin listing THEN Goto("done", InitResult)
    ELSE IF a.check_mode THEN Goto("done", Changed(WouldBeDeleted(a.name)))
    ELSE Goto("delete", InitResult)

\* variant: every answered delete is reported as a deletion
AfterDelete_assumes_found(a, res) == Goto("done", Changed(HasBeenDeleted(a.name)))

\* handle_absent after the delete call
AfterDelete(a, res) ==
    IF res.found = TRUE THEN Goto("done", Changed(HasBeenDeleted(a.name)))
    ELSE Goto("done", InitResult)

\* variant: check mode is not looked at before the put
AfterPre_ignores_check_mode(a, pre_) == Goto("put", InitResult)

\* variant: check mode always announces a creation
AfterPre_always_would_create(a, pre_) ==
    IF a.check_mode THEN Goto("done", Changed(WouldBeCreated(a.name)))
    ELSE Goto("put", InitResult)

\* variant: an entry that exists is left as it is
AfterPre_keeps_existing(a, pre_) ==
    IF a.check_mode
        THEN Goto("done", Changed(IF pre_ = None THEN WouldBeCreated(a.name)
                                  ELSE WouldBeUpdated(a.name)))
    ELSE IF pre_ # None THEN Goto("done", InitResult)
    ELSE Goto("put", InitResult)

\* handle_present once pre_role / pre_user is known
AfterPre(a, pre_) ==
    IF a.check_mode
        THEN Goto("done", Changed(IF pre_ = None THEN WouldBeCreated(a.name)
                                  ELSE WouldBeUpdated(a.name)))
    ELSE Goto("put", InitResult)

\* variant: on_create never hands a password to put
SendPassword_never_on_create(a, user_exists) ==
    IF a.want.update_password = "on_create" THEN PyNone ELSE a.want.password

\* variant: the password is handed to put whatever the policy
SendPassword_ignores_policy(a, user_exists) == a.want.password

\* variant: an existing user is never handed a password
SendPassword_only_for_new_user(a, user_exists) ==
    IF user_exists THEN PyNone ELSE a.want.password

\* User.handle_present: the password handed to put
SendPassword(a, user_exists) ==
    IF a.want.update_password = "on_create" /\ user_exists THEN PyNone
    ELSE a.want.password

\* variant: the role is written with a fixed cluster privilege list
PutKwargs_fixed_cluster(k, a, password) ==
    IF k = "role"
        THEN [name |-> a.name, cluster |-> "c1", indices |-> a.want.indices]
    ELSE LET kwargs == [username |-> a.name, email |-> a.want.email,
                        full_name |-> a.want.full_name, enabled |-> a.want.enabled,
                        roles |-> a.want.roles]
         IN IF password # PyNone THEN kwargs @@ [password |-> password] ELSE kwargs

\* Role.put / User.put: the keyword arguments of the put call
PutKwargs(k, a, password) ==
    IF k = "role"
        THEN [name |-> a.name, cluster |-> a.want.cluster, indices |-> a.want.indices]
    ELSE LET kwargs == [username |-> a.name, email |-> a.want.email,
                        full_name |-> a.want.full_name, enabled |-> a.want.enabled,
                        roles |-> a.want.roles]
         IN IF password # PyNone THEN kwargs @@ [password |-> password] ELSE kwargs

Created(k, res) == IF k = "role" THEN res.role.created ELSE res.created

\* variant: an entry fetched before the put is always compared with a second fetch
AfterPut_compares_when_fetched(k, a, pre_, res) ==
    IF pre_ # None THEN Goto("post_get", InitResult)
    ELSE IF Created(k, res) = TRUE
        THEN Goto(IF a.diff THEN "diff_get" ELSE "done", Changed(HasBeenCreated(a.name)))
    ELSE Goto("done", InitResult)

\* variant: after a put that did not create, nothing is fetched or compared
AfterPut_skips_comparison(k, a, pre_, res) ==
    IF Created(k, res) = TRUE
        THEN Goto(IF a.diff THEN "diff_get" ELSE "done", Changed(HasBeenCreated(a.name)))
    ELSE Goto("done", InitResult)

\* variant: a put that replaced an entry the listing had not shown is reported
AfterPut_reports_overwrite(k, a, pre_, res) ==
    IF Created(k, res) = TRUE
        THEN Goto(IF a.diff THEN "diff_get" ELSE "done", Changed(HasBeenCreated(a.name)))
    ELSE IF pre_ = None THEN Goto("done", Changed(HasBeenUpdated(a.name)))
    ELSE Goto("post_get", InitResult)

\* variant: a put on a name the listing had not shown is reported as a creation
AfterPut_created_when_unseen(k, a, pre_, res) ==
    IF Created(k, res) = TRUE \/ pre_ = None
        THEN Goto(IF a.diff THEN "diff_get" ELSE "done", Changed(HasBeenCreated(a.name)))
    ELSE Goto("post_get", InitResult)

\* handle_present after the put call
AfterPut(k, a, pre_, res) ==
    IF Created(k, res) = TRUE
        THEN Goto(IF a.diff THEN "diff_get" ELSE "done", Changed(HasBeenCreated(a.name)))
    ELSE IF pre_ = None THEN Goto("done", InitResult)
    ELSE Goto("post_get", InitResult)

\* handle_present, created branch with diff: the re-fetched entry is the 'after'
AfterDiffGet(a, r, post) ==
    Goto("done", [r EXCEPT !.diff = [before |-> <<>>, after |-> PyStr(post)]])

compare_keys == {"roles", "full_name", "email", "enabled", "metadata"}

\* raw.get(name, {})
DataOf(n, raw) == IF n \in DOMAIN raw THEN raw[n] ELSE <<>>

\* variant: users are compared on the whole fetched entry
Comparable_whole_entry(k, n, raw) == IF k = "role" THEN raw ELSE DataOf(n, raw)

\* variant: users are compared without their metadata
Comparable_without_metadata(k, n, raw) ==
    IF k = "role" THEN raw
    ELSE LET data == DataOf(n, raw)
         IN [f \in compare_keys \ {"metadata"} |->
                IF f \in DOMAIN data THEN data[f] ELSE PyNone]

\* what the two fetches are compared on
Comparable(k, n, raw) ==
    IF k = "role" THEN raw
    ELSE LET data == DataOf(n, raw)
         IN [f \in compare_keys |-> IF f \in DOMAIN data THEN data[f] ELSE PyNone]

\* what the diff shows of a fetch
Shown(k, n, raw) == IF k = "role" THEN PyStr(raw) ELSE PyStr(DataOf(n, raw))

\* variant: a detected difference is answered by writing once more
AfterPostGet_puts_again(k, a, pre_, post) ==
    IF Comparable(k, a.name, pre_) # Comparable(k, a.name, post)
        THEN Goto("put", Changed(HasBeenUpdated(a.name)))
    ELSE Goto("done", InitResult)

\* variant: every put on an existing entry is reported as an update
AfterPostGet_reports_every_write(k, a, pre_, post) ==
    Goto("done", Changed(HasBeenUpdated(a.name)))

\* variant: the diff is attached whether or not it was asked for
AfterPostGet_always_diffs(k, a, pre_, post) ==
    IF Comparable(k, a.name, pre_) # Comparable(k, a.name, post)
        THEN Goto("done",
                  [changed |-> TRUE, msg |-> HasBeenUpdated(a.name),
                   diff |-> [before |-> Shown(k, a.name, pre_),
                             after |-> Shown(k, a.name, post)]])
    ELSE Goto("done", InitResult)

\* handle_present after the second fetch
AfterPostGet(k, a, pre_, post) ==
    IF Comparable(k, a.name, pre_) # Comparable(k, a.name, post)
        THEN Goto("done",
                  [changed |-> TRUE, msg |-> HasBeenUpdated(a.name),
                   diff |-> IF a.diff
                            THEN [before |-> Shown(k, a.name, pre_),
                                  after |-> Shown(k, a.name, post)]
                            ELSE NoDiff])
    ELSE Goto("done", InitResult)

\* handle_present after the listing: fetch the entry when it is listed
AfterListingPresent(a, listing) ==
    IF a.name \in listing
        THEN [pc |-> "pre_get", result |-> InitResult, user_exists |-> TRUE]
    ELSE [pc |-> AfterPre(a, None).pc, result |-> AfterPre(a, None).result,
          user_exists |-> FALSE]

\* the except blocks around get_all, put and delete; get has none
Die(f) == [pc |-> "failed", fatal |-> f]
\* variant: a failed listing is swallowed and the run ends unchanged
OnListFail_swallowed(k, n, e) == [pc |-> "done", fatal |-> NoFatal]

OnListFail(k, n, e) == Die(FailJson(ListFailMsg(k, e), e))
OnGetFail(k, n, e) == Die(Uncaught(e))
OnPutFail(k, n, e) == Die(FailJson(PutFailMsg(k, n, e), e))
OnDeleteFail(k, n, e) == Die(FailJson(DeleteFailMsg(k, n, e), e))

-----------------------------------------------------------------------------
(* State *)

NoCalls == [list |-> 0, pre_get |-> 0, post_get |-> 0, put |-> 0, delete |-> 0,
            failed |-> 0, not_found |-> 0]
\* 1 when the answer to a call says the entry does not exist
Missing(e) == IF e = NotFound THEN 1 ELSE 0
\* listed: the value of "name in all_roles" / "name in all_users"
\* res: the response of the put or delete call
\* post: what the self.get() after the put returned
NoLoc == [user_exists |-> FALSE, pre |-> None, listed |-> FALSE, res |-> None,
          post |-> None]
\* entry0: what the directory held under the name when the invocation started
\* peer0: where the other run stood when the invocation started
NoMeta == [n |-> 0, others0 |-> 0, existed0 |-> FALSE, entry0 |-> Absent,
           peer0 |-> "idle"]

Finished(p) == pc[p] \in {"done", "failed"}
Peer(p) == CHOOSE q \in Procs : q # p

Summary(p) ==
    [args |-> args[p], outcome |-> pc[p], result |-> result[p], calls |-> calls[p],
     others0 |-> meta[p].others0, existed0 |-> meta[p].existed0]

\* the library versions and servers a run can meet
ClientLibs ==
    {NoLib, Str(<<"7", ".", "1", "7">>), Str(<<"8", ".", "1", "9", ".", "3">>),
     Str(<<"8", ".", "0">>), Tup(9, 0, 0), Tup(9, 2, 1), Tup(10, 0, 0)}
ServerNumbers ==
    {Str(<<"7", ".", "1", "7", ".", "0">>), Str(<<"8", ".", "0", ".", "0">>),
     Str(<<"8", ".", "1", "9", ".", "3">>), Str(<<"9", ".", "0", ".", "0">>),
     Str(<<"9", ".", "2", ".", "1">>), Str(<<"1", "0", ".", "0", ".", "0">>)}
\* a run without the library, and a run with a client that matches the server
RunEnvs ==
    {<<NoLib, Str(<<"8", ".", "1", "9", ".", "3">>)>>,
     <<Str(<<"8", ".", "1", "9", ".", "3">>), Str(<<"8", ".", "1", "9", ".", "3">>)>>}
\* a run with the 9.x client against an 8.x server
MismatchEnvs == {<<Tup(9, 0, 0), Str(<<"8", ".", "1", "9", ".", "3">>)>>}

InitProcs ==
    /\ pc = [p \in Procs |-> "idle"]
    /\ args = [p \in Procs |-> None]
    /\ loc = [p \in Procs |-> NoLoc]
    /\ result = [p \in Procs |-> InitResult]
    /\ fatal = [p \in Procs |-> NoFatal]
    /\ calls = [p \in Procs |-> NoCalls]
    /\ sent = [p \in Procs |-> None]
    /\ meta = [p \in Procs |-> NoMeta]
    /\ prev = [p \in Procs |-> None]

InitIn(envs) ==
    /\ kind \in Kinds
    /\ \E env \in envs : esLib = env[1] /\ serverNum = env[2]
    /\ remote \in [Names -> InitEntries(kind) \cup {Absent}]
    /\ \A n \in Names \ Targets : remote[n] = Bystander(kind)
    /\ seq = 0
    /\ others = 0
    /\ compat = None
    /\ conn = None
    /\ client = None
    /\ InitProcs

Init == InitIn(RunEnvs)

-----------------------------------------------------------------------------
(* Role.__init__ / User.__init__: build the client, then handle() *)

Start(p) ==
    /\ pc[p] = "idle" \/ Finished(p)
    /\ meta[p].n < MaxInv
    /\ \E a \in (IF meta[p].n = 0 THEN ArgsOf(kind) ELSE FollowUps(kind, args[p])) :
        /\ args' = [args EXCEPT ![p] = a]
        /\ meta' = [meta EXCEPT ![p] = [n |-> @.n + 1, others0 |-> others,
                                        existed0 |-> remote[a.name] # Absent,
                                        entry0 |-> remote[a.name],
                                        peer0 |-> pc[Peer(p)]]]
    /\ prev' = [prev EXCEPT ![p] = IF Finished(p) THEN Summary(p) ELSE @]
    /\ IF HAS_ELASTICSEARCH
        THEN pc' = [pc EXCEPT ![p] = "list"] /\ fatal' = [fatal EXCEPT ![p] = NoFatal]
        ELSE /\ pc' = [pc EXCEPT ![p] = "failed"]
             /\ fatal' = [fatal EXCEPT ![p] = FailJson(ImportErrorMsg, "ApiError")]
    /\ loc' = [loc EXCEPT ![p] = NoLoc]
    /\ result' = [result EXCEPT ![p] = InitResult]
    /\ calls' = [calls EXCEPT ![p] = NoCalls]
    /\ sent' = [sent EXCEPT ![p] = None]
    /\ UNCHANGED <<conn, client, kind, esLib, serverNum, remote, seq, others, compat>>

\* self.get_all() and the code up to the next remote call
GetAll(p) ==
    /\ pc[p] = "list"
    /\ \/ \E e \in Errors :
            LET d == OnListFail(kind, args[p].name, e)
            IN /\ pc' = [pc EXCEPT ![p] = d.pc]
               /\ fatal' = [fatal EXCEPT ![p] = d.fatal]
               /\ calls' = [calls EXCEPT ![p].list = @ + 1, ![p].failed = @ + 1]
               /\ UNCHANGED <<loc, result>>
       \/ LET listing == RemoteList(remote)
              g == IF args[p].state = "absent"
                       THEN AfterListingAbsent(args[p], listing) @@ [user_exists |-> FALSE]
                   ELSE AfterListingPresent(args[p], listing)
          IN /\ pc' = [pc EXCEPT ![p] = g.pc]
             /\ result' = [result EXCEPT ![p] = g.result]
             /\ loc' = [loc EXCEPT ![p].user_exists = g.user_exists,
                                   ![p].listed = args[p].name \in listing]
             /\ calls' = [calls EXCEPT ![p].list = @ + 1]
             /\ UNCHANGED fatal
    /\ UNCHANGED <<conn, client, kind, esLib, serverNum, remote, seq, others, args,
                   sent, meta, prev, compat>>

\* what a get of name n can raise
GetErrors(n) == Errors \cup (IF remote[n] = Absent THEN {NotFound} ELSE {})

\* pre_role = self.get() and the code up to the next remote call
PreGet(p) ==
    /\ pc[p] = "pre_get"
    /\ \/ \E e \in GetErrors(args[p].name) :
            LET d == OnGetFail(kind, args[p].name, e)
            IN /\ pc' = [pc EXCEPT ![p] = d.pc]
               /\ fatal' = [fatal EXCEPT ![p] = d.fatal]
               /\ calls' = [calls EXCEPT ![p].pre_get = @ + 1, ![p].failed = @ + 1,
                                         ![p].not_found = @ + Missing(e)]
               /\ UNCHANGED <<loc, result>>
       \/ /\ remote[args[p].name] # Absent
          /\ LET raw == RemoteGet(remote, kind, args[p].name)
                 g == AfterPre(args[p], raw)
             IN /\ pc' = [pc EXCEPT ![p] = g.pc]
                /\ result' = [result EXCEPT ![p] = g.result]
                /\ loc' = [loc EXCEPT ![p].pre = raw]
                /\ calls' = [calls EXCEPT ![p].pre_get = @ + 1]
                /\ UNCHANGED fatal
    /\ UNCHANGED <<conn, client, kind, esLib, serverNum, remote, seq, others, args,
                   sent, meta, prev, compat>>

\* what a put of these keyword arguments can raise
PutErrors(n, kwargs) ==
    Errors \cup (IF RemotePutAccepted(remote, kind, n, kwargs) THEN {} ELSE {"BadRequest"})

\* res = self.put(...) and the code up to the next remote call
Put(p) ==
    /\ pc[p] = "put"
    /\ LET a == args[p]
           kwargs == PutKwargs(kind, a, IF kind = "user"
                                            THEN SendPassword(a, loc[p].user_exists)
                                        ELSE PyNone)
       IN /\ sent' = [sent EXCEPT ![p] = kwargs]
          /\ \/ \E e \in PutErrors(a.name, kwargs) :
                  LET d == OnPutFail(kind, a.name, e)
                  IN /\ pc' = [pc EXCEPT ![p] = d.pc]
                     /\ fatal' = [fatal EXCEPT ![p] = d.fatal]
                     /\ calls' = [calls EXCEPT ![p].put = @ + 1, ![p].failed = @ + 1]
                     /\ UNCHANGED <<remote, seq, result, loc>>
             \/ /\ RemotePutAccepted(remote, kind, a.name, kwargs)
                /\ LET res == PutResponse(kind, remote[a.name] = Absent)
                       g == AfterPut(kind, a, loc[p].pre, res)
                   IN /\ remote' = RemotePut(remote, kind, a.name, kwargs, seq)
                      /\ seq' = RemotePutSeq(kind, kwargs, seq)
                      /\ pc' = [pc EXCEPT ![p] = g.pc]
                      /\ result' = [result EXCEPT ![p] = g.result]
                      /\ calls' = [calls EXCEPT ![p].put = @ + 1]
                      /\ loc' = [loc EXCEPT ![p].res = res]
                      /\ UNCHANGED fatal
    /\ UNCHANGED <<conn, client, kind, esLib, serverNum, others, args, meta, prev,
                   compat>>

\* the self.get() of the created branch, made for the diff
DiffGet(p) ==
    /\ pc[p] = "diff_get"
    /\ \/ \E e \in GetErrors(args[p].name) :
            LET d == OnGetFail(kind, args[p].name, e)
            IN /\ pc' = [pc EXCEPT ![p] = d.pc]
               /\ fatal' = [fatal EXCEPT ![p] = d.fatal]
               /\ calls' = [calls EXCEPT ![p].post_get = @ + 1, ![p].failed = @ + 1,
                                         ![p].not_found = @ + Missing(e)]
               /\ UNCHANGED <<result, loc>>
       \/ /\ remote[args[p].name] # Absent
          /\ LET g == AfterDiffGet(args[p], result[p],
                                   RemoteGet(remote, kind, args[p].name))
             IN /\ pc' = [pc EXCEPT ![p] = g.pc]
                /\ result' = [result EXCEPT ![p] = g.result]
                /\ calls' = [calls EXCEPT ![p].post_get = @ + 1]
                /\ loc' = [loc EXCEPT ![p].post = RemoteGet(remote, kind, args[p].name)]
                /\ UNCHANGED fatal
    /\ UNCHANGED <<conn, client, kind, esLib, serverNum, remote, seq, others, args,
                   sent, meta, prev, compat>>

\* post_role = self.get() and the comparison
PostGet(p) ==
    /\ pc[p] = "post_get"
    /\ \/ \E e \in GetErrors(args[p].name) :
            LET d == OnGetFail(kind, args[p].name, e)
            IN /\ pc' = [pc EXCEPT ![p] = d.pc]
               /\ fatal' = [fatal EXCEPT ![p] = d.fatal]
               /\ calls' = [calls EXCEPT ![p].post_get = @ + 1, ![p].failed = @ + 1,
                                         ![p].not_found = @ + Missing(e)]
               /\ UNCHANGED <<result, loc>>
       \/ /\ remote[args[p].name] # Absent
          /\ LET g == AfterPostGet(kind, args[p], loc[p].pre,
                                   RemoteGet(remote, kind, args[p].name))
             IN /\ pc' = [pc EXCEPT ![p] = g.pc]
                /\ result' = [result EXCEPT ![p] = g.result]
                /\ calls' = [calls EXCEPT ![p].post_get = @ + 1]
                /\ loc' = [loc EXCEPT ![p].post = RemoteGet(remote, kind, args[p].name)]
                /\ UNCHANGED fatal
    /\ UNCHANGED <<conn, client, kind, esLib, serverNum, remote, seq, others, args,
                   sent, meta, prev, compat>>

\* what a delete of name n can raise: for a missing entry the client either
\* answers found=false or raises NotFound, depending on how it treats a 404
DeleteErrors(n) == Errors \cup (IF remote[n] = Absent THEN {NotFound} ELSE {})

\* res = self.delete() and the rest of handle_absent
Delete(p) ==
    /\ pc[p] = "delete"
    /\ \/ \E e \in DeleteErrors(args[p].name) :
            LET d == OnDeleteFail(kind, args[p].name, e)
            IN /\ pc' = [pc EXCEPT ![p] = d.pc]
               /\ fatal' = [fatal EXCEPT ![p] = d.fatal]
               /\ calls' = [calls EXCEPT ![p].delete = @ + 1, ![p].failed = @ + 1,
                                         ![p].not_found = @ + Missing(e)]
               /\ UNCHANGED <<remote, result, loc>>
       \/ LET g == AfterDelete(args[p], DeleteResponse(remote, args[p].name))
          IN /\ remote' = RemoteDelete(remote, args[p].name)
             /\ pc' = [pc EXCEPT ![p] = g.pc]
             /\ result' = [result EXCEPT ![p] = g.result]
             /\ loc' = [loc EXCEPT ![p].res = DeleteResponse(remote, args[p].name)]
             /\ calls' = [calls EXCEPT ![p].delete = @ + 1,
                                       ![p].not_found =
                                           @ + (IF remote[args[p].name] = Absent
                                                THEN 1 ELSE 0)]
             /\ UNCHANGED fatal
    /\ UNCHANGED <<conn, client, kind, esLib, serverNum, seq, others, args, sent, meta,
                   prev, compat>>

\* another actor on the same cluster creates, replaces or deletes an entry
OtherActor ==
    /\ others < MaxOther
    /\ others' = others + 1
    /\ \E n \in Targets :
        \/ /\ remote[n] # Absent
           /\ remote' = [remote EXCEPT ![n] = Absent]
           /\ seq' = seq
        \/ \E e \in OtherEntries(kind, seq + 1) :
            /\ remote' = [remote EXCEPT ![n] = e]
            /\ seq' = IF kind = "user" THEN seq + 1 ELSE seq
    /\ UNCHANGED <<conn, client, kind, esLib, serverNum, pc, args, loc, result, fatal,
                   calls, sent, meta, prev, compat>>

Invocation(p) ==
    Start(p) \/ GetAll(p) \/ PreGet(p) \/ Put(p) \/ DiffGet(p) \/ PostGet(p) \/ Delete(p)

\* one module run after the other, with other actors on the cluster
Next == Invocation(1) \/ OtherActor

Spec == Init /\ [][Next]_vars

\* two tasks run at the same time against the same cluster, each once and
\* outside check mode
Concurrent(p) ==
    \/ pc[p] = "idle" /\ Start(p) /\ ~args'[p].check_mode
    \/ GetAll(p) \/ PreGet(p) \/ Put(p) \/ DiffGet(p) \/ PostGet(p) \/ Delete(p)

NextConcurrent == Concurrent(1) \/ Concurrent(2)

SpecConcurrent == Init /\ [][NextConcurrent]_vars

\* the same runs with the 9.x client against an 8.x server
SpecMismatch == InitIn(MismatchEnvs) /\ [][Next]_vars

-----------------------------------------------------------------------------
(* Api.check_version_compatibility(client), called on its own *)

CheckVersionCompatibility ==
    /\ compat = None
    /\ compat' = check_version_compatibility(ES_CLIENT_VERSION, get_server_version)
    /\ UNCHANGED <<conn, client, kind, esLib, serverNum, remote, seq, others, pc, args,
                   loc, result, fatal, calls, sent, meta, prev>>

\* client.info() fails: the exception leaves get_server_version and the check
InfoFails ==
    /\ compat = None
    /\ \E e \in Errors : compat' = Raised("TransportError", <<e>>)
    /\ UNCHANGED <<conn, client, kind, esLib, serverNum, remote, seq, others, pc, args,
                   loc, result, fatal, calls, sent, meta, prev>>

InitCompat ==
    /\ kind = "role"
    /\ esLib \in ClientLibs
    /\ serverNum \in ServerNumbers
    /\ remote = [n \in Names |-> Absent]
    /\ seq = 0
    /\ others = 0
    /\ compat = None
    /\ conn = None
    /\ client = None
    /\ InitProcs

NextCompat == CheckVersionCompatibility \/ InfoFails

SpecCompat == InitCompat /\ [][NextCompat]_vars

-----------------------------------------------------------------------------
(* Client creation: Api._create_ssl_context, new_client_basic_auth,
   new_client_api_key.  Role and User reach the cluster through the client
   that new_client_basic_auth returns. *)

Hosts == {"https://es1:9200", "https://es2:9200"}
\* ca_certs: not given, empty, or the path of a CA file
CaCerts == {PyNone, "", "/etc/ca.pem"}
Conns ==
    [host : Hosts, auth_user : {"elastic"}, auth_pass : {"changeme"},
     api_key : {"key1"}, ca_certs : CaCerts, verify_certs : BOOLEAN]

\* ssl.create_default_context(cafile=...): verifying, hostname check on
create_default_context(cafile) ==
    [cafile |-> cafile, check_hostname |-> TRUE, verify_mode |-> "CERT_REQUIRED"]

\* variant: the context is left as ssl.create_default_context() made it
create_ssl_context_keeps_default(ca_certs, verify_certs) ==
    create_default_context(ca_certs)

create_ssl_context(ca_certs, verify_certs) ==
    LET ctx == create_default_context(IF ca_certs \notin {PyNone, ""} THEN ca_certs
                                      ELSE PyNone)
    IN IF ~verify_certs
           THEN [ctx EXCEPT !.check_hostname = FALSE, !.verify_mode = "CERT_NONE"]
       ELSE [ctx EXCEPT !.check_hostname = TRUE, !.verify_mode = "CERT_REQUIRED"]

\* Api.check_elasticsearch_import, then what the caller gets
Imported(r) ==
    IF HAS_ELASTICSEARCH THEN Returned(r) ELSE Raised("ApiError", ImportErrorMsg)

new_client_basic_auth(host, auth_user, auth_pass, ca_certs, verify_certs) ==
    Imported([hosts |-> <<host>>, basic_auth |-> <<auth_user, auth_pass>>,
              ssl_context |-> create_ssl_context(ca_certs, verify_certs),
              verify_certs |-> verify_certs])

new_client_api_key(host, api_key, ca_certs, verify_certs) ==
    Imported([hosts |-> <<host>>, api_key |-> api_key,
              ssl_context |-> create_ssl_context(ca_certs, verify_certs),
              verify_certs |-> verify_certs])

NewClientBasicAuth ==
    /\ conn # None /\ client = None
    /\ client' = new_client_basic_auth(conn.host, conn.auth_user, conn.auth_pass,
                                       conn.ca_certs, conn.verify_certs)
    /\ UNCHANGED <<conn, kind, esLib, serverNum, remote, seq, others, pc, args, loc,
                   result, fatal, calls, sent, meta, prev, compat>>

NewClientApiKey ==
    /\ conn # None /\ client = None
    /\ client' = new_client_api_key(conn.host, conn.api_key, conn.ca_certs,
                                    conn.verify_certs)
    /\ UNCHANGED <<conn, kind, esLib, serverNum, remote, seq, others, pc, args, loc,
                   result, fatal, calls, sent, meta, prev, compat>>

InitClient ==
    /\ kind = "role"
    /\ esLib \in ClientLibs
    /\ serverNum = Str(<<"8", ".", "1", "9", ".", "3">>)
    /\ remote = [n \in Names |-> Absent]
    /\ seq = 0
    /\ others = 0
    /\ compat = None
    /\ conn \in Conns
    /\ client = None
    /\ InitProcs

NextClient == NewClientBasicAuth \/ NewClientApiKey

SpecClient == InitClient /\ [][NextClient]_vars

-----------------------------------------------------------------------------
(* Properties *)

Running(p) == pc[p] \in {"list", "pre_get", "put", "diff_get", "post_get", "delete"}
Mutations(p) == calls[p].put + calls[p].delete
Reads(p) == calls[p].list + calls[p].pre_get + calls[p].post_get
SameInvocation(p) == meta'[p].n = meta[p].n

\* C1: an invocation in check mode issues no put and no delete call, and none
\* of its steps changes the remote directory, whatever changed value it reports.
C1_DryRunNoMutation ==
    /\ [](\A p \in Procs : pc[p] # "idle" /\ args[p].check_mode => Mutations(p) = 0)
    /\ [][\A p \in Procs :
            Running(p) /\ args[p].check_mode /\ pc'[p] # pc[p] => remote' = remote]_vars

C1_Witness ==
    \E p \in Procs :
        /\ pc[p] = "done" /\ args[p].check_mode /\ args[p].state = "present"
        /\ result[p].changed /\ result[p].msg = WouldBeUpdated(args[p].name)
        /\ calls[p].pre_get = 1 /\ remote[args[p].name] # Absent

\* C2: no reconciliation call is issued before the compatibility check has run
\* and passed; with client 9 and server 8 no call is issued at all.
C2_CheckBeforeCalls ==
    \A p \in Procs : calls[p] # NoCalls => compat # None /\ ~compat.raised

\* C3: an invocation issues at most one mutating call (put or delete), at most
\* one listing, at most one fetch before and at most one fetch after the put.
C3_CallBudget ==
    \A p \in Procs :
        /\ Mutations(p) <= 1
        /\ calls[p].list <= 1 /\ calls[p].pre_get <= 1 /\ calls[p].post_get <= 1
        /\ Reads(p) <= 3

C3_Witness ==
    \E p \in Procs :
        /\ pc[p] = "done" /\ calls[p].put = 1 /\ Reads(p) = 3
        /\ result[p].msg = HasBeenUpdated(args[p].name)

\* C4: the resource being absent at first and nobody else acting, two
\* successive real runs with the same parameters and state=present report
\* changed=true, then changed=false.
Repeated(p) ==
    /\ pc[p] = "done" /\ prev[p] # None /\ prev[p].outcome = "done"
    /\ prev[p].args = args[p] /\ prev[p].others0 = others

C4_Idempotence ==
    \A p \in Procs :
        Repeated(p) /\ args[p].state = "present" /\ ~args[p].check_mode
            /\ ~prev[p].existed0
        => prev[p].result.changed /\ ~result[p].changed

C4_Witness ==
    \E p \in Procs :
        /\ Repeated(p) /\ args[p].state = "present" /\ ~args[p].check_mode
        /\ ~prev[p].existed0 /\ kind = "user"
        /\ args[p].want.update_password = "always"
        /\ calls[p].put = 1 /\ calls[p].post_get = 1 /\ ~result[p].changed

\* the check ran to its end on the pair (client, server)
Checked == compat # None /\ compat.error # "TransportError"

\* C5: the check raises ApiError, and returns no report, exactly for client 9
\* with server 8.
C5_OnlyNineOnEightRaises ==
    Checked =>
        /\ compat.raised <=> (ES_CLIENT_VERSION = 9 /\ get_server_version = 8)
        /\ compat.raised => compat.error = "ApiError" /\ compat.result = None

C5_Witness ==
    /\ Checked /\ compat.raised /\ compat.error = "ApiError"
    /\ ES_CLIENT_VERSION = 9 /\ get_server_version = 8

\* C6 as claimed: for equal versions the report is compatible with an empty message.
C6_EmptyMessageWhenEqual ==
    Checked /\ ES_CLIENT_VERSION = get_server_version =>
        ~compat.raised /\ compat.result.compatible /\ compat.result.message = NoMsg

IsUpgradeAdvisory(m) ==
    \E i \in DOMAIN m :
        m[i] = "Consider upgrading to 'elasticsearch>=9,<10' for full ES 9.x feature support."
IsNotVerified(m) == \E i \in DOMAIN m : m[i] = "compatibility not verified."

\* C6 as amended: for equal versions the report is compatible and its message
\* says the client is fully compatible with the server; it is neither the
\* upgrade advisory nor the not-verified message.
C6_FullyCompatibleWhenEqual ==
    Checked /\ ES_CLIENT_VERSION = get_server_version =>
        /\ ~compat.raised /\ compat.result.compatible
        /\ compat.result.message =
               FullyCompatibleMsg(ES_CLIENT_VERSION, get_server_version)
        /\ ~IsUpgradeAdvisory(compat.result.message)
        /\ ~IsNotVerified(compat.result.message)

C6_Witness ==
    /\ Checked /\ ES_CLIENT_VERSION = 9 /\ get_server_version = 9
    /\ compat.result.compatible

\* C7: every pair but (9, 8) gets a report with compatible=true and the two
\* versions; (8, 9) gets the upgrade advisory, every other unequal pair the
\* not-verified message; no report says compatible=false.
C7_ReportsForOtherPairs ==
    Checked =>
        /\ ~(ES_CLIENT_VERSION = 9 /\ get_server_version = 8) => ~compat.raised
        /\ ~compat.raised =>
            /\ compat.result.compatible = TRUE
            /\ compat.result.client_version = ES_CLIENT_VERSION
            /\ compat.result.server_version = get_server_version
            /\ (ES_CLIENT_VERSION = 8 /\ get_server_version = 9) =>
                    /\ compat.result.message # NoMsg
                    /\ IsUpgradeAdvisory(compat.result.message)
            /\ (ES_CLIENT_VERSION # get_server_version
                    /\ ~(ES_CLIENT_VERSION = 8 /\ get_server_version = 9)) =>
                    IsNotVerified(compat.result.message)

C7_Witness ==
    /\ Checked /\ ES_CLIENT_VERSION = 8 /\ get_server_version = 9
    /\ IsUpgradeAdvisory(compat.result.message)

\* C8: an invocation in which a call answered "not found" ends with a result
\* that has changed=false, not with a fatal error.
C8_NotFoundNotFatal ==
    \A p \in Procs :
        Finished(p) /\ calls[p].not_found > 0 => pc[p] = "done" /\ ~result[p].changed

CarriesKind(m, k) == \E i \in DOMAIN m : m[i] \in {k, KindPlural(k)}
CarriesName(m, n) == \E i \in DOMAIN m : m[i] = n

\* C9: the message of every fatal error caused by a failed remote call names
\* the resource kind and the resource name.
C9_FatalNamesKindAndName ==
    \A p \in Procs :
        pc[p] = "failed" /\ calls[p].failed > 0 =>
            CarriesKind(fatal[p].msg, kind) /\ CarriesName(fatal[p].msg, args[p].name)

\* C10: once a remote call of an invocation has failed the invocation is dead:
\* it returns no result and issues no further call, in check mode too.
C10_FailureIsFinal ==
    /\ [](\A p \in Procs : calls[p].failed > 0 => pc[p] = "failed" /\ fatal[p] # NoFatal)
    /\ [][\A p \in Procs :
            pc[p] = "failed" /\ SameInvocation(p) =>
                pc'[p] = "failed" /\ calls'[p] = calls[p]]_vars

C10_Witness ==
    \E p \in Procs :
        /\ pc[p] = "failed" /\ args[p].check_mode /\ args[p].state = "present"
        /\ calls[p].pre_get = 1 /\ calls[p].failed = 1 /\ Mutations(p) = 0

\* C11: with state absent and the name missing from the listing, the run ends
\* with changed false, without message or diff, and without a delete call,
\* in check mode and outside it.
C11_AbsentOfUnlistedIsNoOp ==
    \A p \in Procs :
        Finished(p) /\ args[p].state = "absent" /\ calls[p].list = 1
            /\ calls[p].failed = 0 /\ ~loc[p].listed
        => /\ pc[p] = "done"
           /\ result[p] = InitResult
           /\ calls[p].delete = 0 /\ Mutations(p) = 0

C11_Witness ==
    \E p \in Procs :
        /\ pc[p] = "done" /\ args[p].state = "absent" /\ ~args[p].check_mode
        /\ calls[p].list = 1 /\ ~loc[p].listed /\ calls[p].delete = 0
        /\ ~result[p].changed /\ remote[args[p].name] = Absent

\* C12: with state absent outside check mode and the name in the listing, exactly
\* one delete call is made; a response with found true ends the run with changed
\* true and "<name> has been deleted", any other response with changed false.
C12_ListedIsDeletedOnce ==
    \A p \in Procs :
        Finished(p) /\ args[p].state = "absent" /\ ~args[p].check_mode
            /\ loc[p].listed
        => /\ calls[p].delete = 1
           /\ pc[p] = "done" =>
                /\ loc[p].res # None
                /\ IF loc[p].res.found
                       THEN /\ result[p].changed
                            /\ result[p].msg = <<args[p].name, " has been deleted">>
                   ELSE result[p] = InitResult

C12_Witness ==
    \E p \in Procs :
        /\ pc[p] = "done" /\ args[p].state = "absent" /\ ~args[p].check_mode
        /\ loc[p].listed /\ calls[p].delete = 1
        /\ loc[p].res # None /\ ~loc[p].res.found /\ ~result[p].changed

\* a real run with state present whose put was answered, and the answer's
\* created flag
PutAnswered(p) ==
    /\ args[p] # None /\ args[p].state = "present" /\ ~args[p].check_mode
    /\ loc[p].res # None
IsCreated(p) == IF kind = "role" THEN loc[p].res.role.created ELSE loc[p].res.created

\* C13: when the put response says created, the run reports changed true with
\* "<name> has been created", whether or not an entry was fetched before the put;
\* no second fetch is made for a comparison, and a requested diff has an empty
\* "before" and the entry fetched after the put as "after".
C13_CreatedIsReported ==
    \A p \in Procs :
        PutAnswered(p) /\ IsCreated(p) /\ pc[p] \in {"diff_get", "done"}
        => /\ result[p].changed
           /\ result[p].msg = <<args[p].name, " has been created">>
           /\ pc[p] = "diff_get" => args[p].diff /\ result[p].diff = NoDiff
           /\ pc[p] = "done" =>
                IF args[p].diff
                    THEN /\ loc[p].post # None /\ calls[p].post_get = 1
                         /\ result[p].diff =
                                [before |-> <<>>, after |-> <<"str", loc[p].post>>]
                ELSE calls[p].post_get = 0 /\ result[p].diff = NoDiff

C13_Witness ==
    \E p \in Procs :
        /\ PutAnswered(p) /\ IsCreated(p) /\ pc[p] = "done"
        /\ loc[p].pre # None /\ args[p].diff
        /\ result[p].diff # NoDiff /\ result[p].diff.before = <<>>

\* the fields a fetched entry is compared on: the whole entry for a role; roles,
\* full_name, email, enabled and metadata for a user
Projection(p, raw) ==
    IF kind = "role" THEN raw
    ELSE LET e == raw[args[p].name]
         IN <<e.roles, e.full_name, e.email, e.enabled, e.metadata>>

\* C14: with an entry fetched before the put and a put response that does not say
\* created, the run reports changed true with "<name> has been updated" exactly
\* when the compared fields of the entry fetched before the put and of the entry
\* fetched after it differ, and changed false otherwise.
C14_UpdatedIffProjectionsDiffer ==
    \A p \in Procs :
        PutAnswered(p) /\ ~IsCreated(p) /\ loc[p].pre # None /\ pc[p] = "done"
        => /\ loc[p].post # None /\ calls[p].post_get = 1
           /\ IF Projection(p, loc[p].pre) # Projection(p, loc[p].post)
                  THEN /\ result[p].changed
                       /\ result[p].msg = <<args[p].name, " has been updated">>
              ELSE result[p] = InitResult

C14_Witness ==
    \E p \in Procs :
        /\ PutAnswered(p) /\ ~IsCreated(p) /\ loc[p].pre # None /\ pc[p] = "done"
        /\ kind = "user" /\ result[p].changed
        /\ result[p].msg = <<args[p].name, " has been updated">>
        /\ loc[p].pre[args[p].name].password_hash
               # loc[p].post[args[p].name].password_hash

\* C15: the keyword arguments of a user put lack the password exactly when
\* update_password is on_create and the name was in the listing; with always, or
\* with the name missing from the listing, they carry the task's password.
C15_PasswordSuppression ==
    \A p \in Procs :
        kind = "user" /\ sent[p] # None
        => /\ "password" \notin DOMAIN sent[p]
                <=> args[p].want.update_password = "on_create" /\ loc[p].listed
           /\ "password" \in DOMAIN sent[p]
                => sent[p].password = args[p].want.password

C15_Witness ==
    \E p \in Procs :
        /\ kind = "user" /\ sent[p] # None /\ pc[p] = "done" /\ calls[p].put = 1
        /\ args[p].want.update_password = "on_create" /\ loc[p].listed
        /\ "password" \notin DOMAIN sent[p]

\* a user run with on_create on a user that existed at its start, with no other
\* actor writing since
OnCreateOnExisting(p) ==
    /\ kind = "user" /\ args[p] # None /\ args[p].state = "present"
    /\ ~args[p].check_mode /\ args[p].want.update_password = "on_create"
    /\ meta[p].existed0 /\ meta[p].others0 = others

\* the run before this one was the same task but for the password, on a user
\* that existed, and both ran to their end
PasswordOnlyFollowUp(p) ==
    /\ OnCreateOnExisting(p) /\ pc[p] = "done"
    /\ prev[p] # None /\ prev[p].outcome = "done" /\ prev[p].others0 = others
    /\ prev[p].existed0
    /\ prev[p].args.want.password # args[p].want.password
    /\ [prev[p].args EXCEPT !.want.password = args[p].want.password] = args[p]

\* C16: on an existing user with update_password on_create, no step of a run
\* touches the stored credential, and the second of two successive runs that
\* differ only in the password reports changed false.
C16_PasswordExclusion ==
    \A p \in Procs :
        /\ OnCreateOnExisting(p)
           => /\ remote[args[p].name] # Absent
              /\ remote[args[p].name].password = meta[p].entry0.password
              /\ remote[args[p].name].password_hash = meta[p].entry0.password_hash
        /\ PasswordOnlyFollowUp(p) => result[p] = InitResult

C16_Witness ==
    \E p \in Procs :
        /\ PasswordOnlyFollowUp(p) /\ calls[p].put = 1 /\ calls[p].post_get = 1
        /\ ~result[p].changed
        /\ remote[args[p].name].password # args[p].want.password
        /\ remote[args[p].name].password = meta[p].entry0.password

\* what a task with parameters a asks the entry to be, as a fetch would show it
DesiredShown(a, e) ==
    IF kind = "role" THEN e = RoleEntry(a.want.cluster, a.want.indices)
    ELSE /\ e.roles = a.want.roles /\ e.full_name = a.want.full_name
         /\ e.email = a.want.email /\ e.enabled = a.want.enabled
         /\ e.metadata = EmptyMeta

\* C17: a check-mode run with state present that returns a result returns
\* changed true, with "<name> would be created" when the name was not in the
\* listing and "<name> would be updated" when it was, also when the stored entry
\* already is what the task asks for.
C17_DryRunPresentAlwaysChanged ==
    \A p \in Procs :
        pc[p] = "done" /\ args[p].state = "present" /\ args[p].check_mode
        => /\ result[p].changed
           /\ result[p].diff = NoDiff
           /\ result[p].msg = IF loc[p].listed
                                  THEN <<args[p].name, " would be updated">>
                              ELSE <<args[p].name, " would be created">>
           /\ loc[p].listed <=> loc[p].pre # None

C17_Witness ==
    \E p \in Procs :
        /\ pc[p] = "done" /\ args[p].state = "present" /\ args[p].check_mode
        /\ loc[p].listed /\ remote[args[p].name] # Absent
        /\ meta[p].others0 = others
        /\ DesiredShown(args[p], remote[args[p].name])
        /\ result[p].changed
        /\ result[p].msg = <<args[p].name, " would be updated">>

\* C18: a check-mode run with state absent that found the name in the listing
\* returns changed true with "<name> would be deleted", has sent no delete, and
\* leaves the entry in place.
C18_DryRunAbsentKeepsEntry ==
    \A p \in Procs :
        Finished(p) /\ args[p].state = "absent" /\ args[p].check_mode
            /\ loc[p].listed
        => /\ pc[p] = "done"
           /\ result[p].changed
           /\ result[p].msg = <<args[p].name, " would be deleted">>
           /\ calls[p].delete = 0 /\ calls[p].put = 0
           /\ meta[p].others0 = others => remote[args[p].name] = meta[p].entry0

C18_Witness ==
    \E p \in Procs :
        /\ pc[p] = "done" /\ args[p].state = "absent" /\ args[p].check_mode
        /\ loc[p].listed /\ result[p].changed
        /\ meta[p].others0 = others /\ remote[args[p].name] # Absent

\* C20: a returned result carries a diff only if the diff was asked for and
\* changed is true.
C20_DiffOnlyWhenAskedAndChanged ==
    \A p \in Procs :
        pc[p] = "done" /\ result[p].diff # NoDiff
        => args[p].diff /\ result[p].changed

C20_Witness ==
    \E p \in Procs :
        /\ pc[p] = "done" /\ result[p].diff # NoDiff
        /\ result[p].msg = <<args[p].name, " has been updated">>

\* the two runs overlapped: one of them started while the other was under way
Overlapped == \E p \in Procs : meta[p].peer0 \notin {"idle", "done", "failed"}

\* the desired states of the two tasks differ on the compared fields
Conflicting ==
    IF kind = "role" THEN args[1].want # args[2].want
    ELSE <<args[1].want.roles, args[1].want.full_name, args[1].want.email,
           args[1].want.enabled>>
         # <<args[2].want.roles, args[2].want.full_name, args[2].want.email,
             args[2].want.enabled>>

\* two overlapping real runs with state present and conflicting desired states on
\* one name that existed when each of them started, both returned
ConflictingWritersReturned ==
    /\ \A p \in Procs : /\ pc[p] = "done" /\ args[p].state = "present"
                         /\ ~args[p].check_mode /\ meta[p].existed0
    /\ args[1].name = args[2].name
    /\ Overlapped /\ Conflicting

ReportsUpdated(p) == result[p].msg = <<args[p].name, " has been updated">>

\* C19 as stated: of two overlapping conflicting writers at most one reports
\* "<name> has been updated", whatever the interleaving.
C19_AtMostOneReportsUpdated ==
    ConflictingWritersReturned => ~(ReportsUpdated(1) /\ ReportsUpdated(2))

\* C19: when two overlapping conflicting writers have both returned, the stored
\* entry is the desired state of one of them, and each of them reports
\* "<name> has been updated" exactly when the entry it fetched before its put and
\* the entry it fetched after it differ on the compared fields; the reports do
\* not exclude each other.
C19_LastWriteWinsReportsIndependent ==
    ConflictingWritersReturned
    => /\ remote[args[1].name] # Absent
       /\ \/ DesiredShown(args[1], remote[args[1].name])
          \/ DesiredShown(args[2], remote[args[1].name])
       /\ \A p \in Procs :
            /\ loc[p].pre # None /\ loc[p].post # None
            /\ ReportsUpdated(p)
                 <=> Projection(p, loc[p].pre) # Projection(p, loc[p].post)
            /\ ReportsUpdated(p) <=> result[p].changed

\* last write wins with one report: the entry is what the second task asked
\* for, only the second task reports the update
C19_Witness ==
    /\ ConflictingWritersReturned
    /\ ~ReportsUpdated(1) /\ ReportsUpdated(2)
    /\ DesiredShown(args[2], remote[args[2].name])

\* the compared fields of a fetched user entry, as a record
UserProjection(e) ==
    [roles |-> e.roles, full_name |-> e.full_name, email |-> e.email,
     enabled |-> e.enabled, metadata |-> e.metadata]

\* C21: when an update is reported and the diff was asked for, the diff shows
\* the compared fields of the entry fetched before the put and of the entry
\* fetched after it, and for a user no other field of the fetched entries.
C21_DiffShowsProjection ==
    \A p \in Procs :
        pc[p] = "done" /\ ReportsUpdated(p) /\ args[p].diff
        => /\ result[p].diff # NoDiff
           /\ IF kind = "role"
                  THEN result[p].diff = [before |-> <<"str", loc[p].pre>>,
                                         after |-> <<"str", loc[p].post>>]
              ELSE result[p].diff =
                      [before |-> <<"str", UserProjection(loc[p].pre[args[p].name])>>,
                       after |-> <<"str", UserProjection(loc[p].post[args[p].name])>>]

\* a real run that returned, with no other actor writing since it started
RealRunAlone(p) ==
    /\ pc[p] = "done" /\ ~args[p].check_mode /\ meta[p].others0 = others

\* the entry differs in existence or in its compared fields between the start
\* of the run and now
Transition(p) ==
    LET n == args[p].name
        before == meta[p].entry0
        after == remote[n]
    IN IF before = Absent \/ after = Absent THEN before # after
       ELSE Projection(p, RemoteGet([remote EXCEPT ![n] = before], kind, n))
                # Projection(p, RemoteGet(remote, kind, n))

\* C22: a real run with no other actor on the entry reports changed true exactly
\* when the entry's existence or its compared fields differ between the start
\* and the end of the run; a put that writes what was there reports changed false.
C22_ChangedIsObservedTransition ==
    \A p \in Procs : RealRunAlone(p) => (result[p].changed <=> Transition(p))

C22_Witness ==
    \E p \in Procs :
        /\ RealRunAlone(p) /\ args[p].state = "present" /\ meta[p].existed0
        /\ calls[p].put = 1 /\ calls[p].post_get = 1
        /\ ~Transition(p) /\ ~result[p].changed

\* the decimal digits of a natural number, and "M.m.p" for the tuple (M, m, p)
RECURSIVE Digits(_)
Digits(n) ==
    LET d == <<"0", "1", "2", "3", "4", "5", "6", "7", "8", "9">>[(n % 10) + 1]
    IN IF n < 10 THEN <<d>> ELSE Digits(n \div 10) \o <<d>>
Dotted(t) == Digits(t[1]) \o <<".">> \o Digits(t[2]) \o <<".">> \o Digits(t[3])
StartsWith(s, pre) == Len(pre) <= Len(s) /\ SubSeq(s, 1, Len(pre)) = pre

\* the major version a version value stands for
MajorShown(version, major) ==
    IF version.type = "tuple" THEN major = version.v[1]
    ELSE StartsWith(version.v, Digits(major) \o <<".">>)

\* C23: parse_version gives the first element of a tuple and the integer before
\* the first dot of a dotted string, so the tuple (M, m, p) and the string
\* "M.m.p" both give M.
C23_ParseVersionGivesMajor ==
    compat # None /\ ~compat.raised /\ esLib # NoLib
    => /\ MajorShown(esLib, compat.result.client_version)
       /\ MajorShown(serverNum, compat.result.server_version)
       /\ esLib.type = "tuple" /\ serverNum.v = Dotted(esLib.v)
            => /\ compat.result.client_version = esLib.v[1]
               /\ compat.result.server_version = esLib.v[1]

C23_Witness ==
    /\ compat # None /\ ~compat.raised /\ esLib # NoLib
    /\ esLib.type = "tuple" /\ serverNum.v = Dotted(esLib.v)
    /\ compat.result.client_version = 10 /\ compat.result.server_version = 10

\* C24: a client made by new_client_basic_auth or new_client_api_key carries the
\* verify_certs value it was given, and its TLS context has verify mode CERT_NONE
\* with the hostname check off when that value is false, CERT_REQUIRED with the
\* hostname check on when it is true.
C24_TlsContextFollowsVerifyCerts ==
    client # None /\ ~client.raised
    => /\ client.result.verify_certs = conn.verify_certs
       /\ client.result.ssl_context.verify_mode
            = (IF conn.verify_certs THEN "CERT_REQUIRED" ELSE "CERT_NONE")
       /\ client.result.ssl_context.check_hostname = conn.verify_certs

C24_Witness ==
    /\ client # None /\ ~client.raised /\ ~conn.verify_certs
    /\ "api_key" \in DOMAIN client.result
    /\ client.result.ssl_context.verify_mode = "CERT_NONE"
    /\ ~client.result.verify_certs

\* C25: a real run with state present that did not find the name in the listing
\* and whose put response does not say created (the entry appeared in between)
\* returns changed false without message or diff and fetches nothing after the
\* put, although the put replaced what the other actor had written.
C25_UnseenOverwriteIsSilent ==
    \A p \in Procs :
        PutAnswered(p) /\ ~IsCreated(p) /\ ~loc[p].listed /\ calls[p].list = 1
        => /\ pc[p] = "done"
           /\ result[p] = InitResult
           /\ loc[p].pre = None
           /\ calls[p].pre_get = 0 /\ calls[p].post_get = 0 /\ calls[p].put = 1

C25_Witness ==
    \E p \in Procs :
        /\ PutAnswered(p) /\ ~IsCreated(p) /\ ~loc[p].listed /\ pc[p] = "done"
        /\ others > meta[p].others0 /\ ~meta[p].existed0
        /\ DesiredShown(args[p], remote[args[p].name])
        /\ ~result[p].changed

\* C26: the keyword arguments of a role put are the task's name, cluster
\* privileges and indices privileges as given, whatever the listing, the
\* entry fetched before the put and earlier runs were.
C26_RolePayloadVerbatim ==
    \A p \in Procs :
        kind = "role" /\ sent[p] # None
        => /\ DOMAIN sent[p] = {"name", "cluster", "indices"}
           /\ sent[p].name = args[p].name
           /\ sent[p].cluster = args[p].want.cluster
           /\ sent[p].indices = args[p].want.indices

C26_Witness ==
    \E p \in Procs :
        /\ kind = "role" /\ sent[p] # None /\ pc[p] = "done"
        /\ meta[p].n = 2 /\ loc[p].pre # None
        /\ loc[p].pre[args[p].name].cluster # args[p].want.cluster
        /\ sent[p].cluster = args[p].want.cluster

\* a real run that returned, right after a check-mode run of the same task that
\* returned, with no other actor writing since the check-mode run started
RealAfterDryRun(p) ==
    /\ pc[p] = "done" /\ ~args[p].check_mode
    /\ prev[p] # None /\ prev[p].outcome = "done"
    /\ prev[p].args = [args[p] EXCEPT !.check_mode = TRUE]
    /\ prev[p].others0 = others

\* C27: the changed flag of a check-mode run equals the changed flag of the real
\* run of the same task started from the same state of the cluster.
C27_DryRunPredictsRealRun ==
    \A p \in Procs : RealAfterDryRun(p) => prev[p].result.changed = result[p].changed

\* C28: a returned result has a message exactly when changed is true, and a
\* result with changed false has neither message nor diff.
C28_MessageIffChanged ==
    \A p \in Procs :
        pc[p] = "done"
        => /\ result[p].msg # NoMsg <=> result[p].changed
           /\ ~result[p].changed => result[p].diff = NoDiff

C28_Witness ==
    \E p \in Procs :
        /\ pc[p] = "done" /\ ~args[p].check_mode /\ calls[p].put = 1
        /\ args[p].diff /\ ~result[p].changed
        /\ result[p].msg = NoMsg /\ result[p].diff = NoDiff

\* the stored entry has the attributes the task asks for
StoredAsDesired(a, e) ==
    IF kind = "role" THEN e.cluster = a.want.cluster /\ e.indices = a.want.indices
    ELSE /\ e.roles = a.want.roles /\ e.full_name = a.want.full_name
         /\ e.email = a.want.email /\ e.enabled = a.want.enabled

\* C29: after a real run with state present that returned, with no other actor
\* writing, the entry exists with the desired attributes; a user's stored
\* password is the desired one, unless update_password is on_create and the
\* user existed, in which case it is the password stored before.
C29_PresentConverges ==
    \A p \in Procs :
        RealRunAlone(p) /\ args[p].state = "present"
        => LET e == remote[args[p].name]
           IN /\ e # Absent
              /\ StoredAsDesired(args[p], e)
              /\ kind = "user" =>
                    IF args[p].want.update_password = "on_create" /\ meta[p].existed0
                        THEN e.password = meta[p].entry0.password
                    ELSE e.password = args[p].want.password

C29_Witness ==
    \E p \in Procs :
        /\ RealRunAlone(p) /\ args[p].state = "present" /\ kind = "user"
        /\ args[p].want.update_password = "on_create" /\ meta[p].existed0
        /\ ~StoredAsDesired(args[p], meta[p].entry0)
        /\ StoredAsDesired(args[p], remote[args[p].name])
        /\ remote[args[p].name].password # args[p].want.password

\* the run under way or just ended follows a returned run of the same task, with
\* no other actor writing since that run started
FollowsSameRun(p) ==
    /\ prev[p] # None /\ prev[p].outcome = "done"
    /\ prev[p].args = args[p] /\ prev[p].others0 = others

\* C30: after a real run with state absent that returned, with no other actor
\* writing, the name is not in the listing; the same task run again right after
\* sends no delete and reports changed false.
C30_AbsentConvergesAndRepeats ==
    \A p \in Procs :
        /\ RealRunAlone(p) /\ args[p].state = "absent"
           => /\ remote[args[p].name] = Absent
              /\ args[p].name \notin RemoteList(remote)
        /\ FollowsSameRun(p) /\ args[p].state = "absent" /\ ~args[p].check_mode
           => /\ calls[p].delete = 0 /\ pc[p] # "delete"
              /\ pc[p] = "done" => result[p] = InitResult

C30_Witness ==
    \E p \in Procs :
        /\ FollowsSameRun(p) /\ args[p].state = "absent" /\ ~args[p].check_mode
        /\ pc[p] = "done" /\ prev[p].result.changed /\ prev[p].calls.delete = 1
        /\ ~result[p].changed /\ calls[p].list = 1 /\ calls[p].delete = 0

\* two overlapping real runs with the given target state on one name; the name
\* existed, or not, when the first of them started
TwoRealRuns(state, existed) ==
    /\ Overlapped
    /\ \A p \in Procs : args[p].state = state /\ ~args[p].check_mode
    /\ args[1].name = args[2].name
    /\ \E p \in Procs : meta[p].peer0 = "idle" /\ meta[p].existed0 = existed

ReportsCreated(p) == result[p].msg = <<args[p].name, " has been created">>

\* C31: of two overlapping real runs with state present on a name that was absent
\* when the first started, the run whose put is answered first is told created,
\* a run told created reports "<name> has been created", and when both have
\* returned exactly one of them reports it.
C31_ExactlyOneReportsCreated ==
    TwoRealRuns("present", FALSE)
    => /\ \A p \in Procs :
            /\ loc[p].res # None /\ loc[Peer(p)].res = None => IsCreated(p)
            /\ pc[p] = "done" => (ReportsCreated(p) <=> IsCreated(p))
       /\ pc[1] = "done" /\ pc[2] = "done"
            => ReportsCreated(1) # ReportsCreated(2)

\* both runs saw the name missing from the listing; the second put replaced the
\* first and its run reports nothing
C31_Witness ==
    /\ TwoRealRuns("present", FALSE) /\ pc[1] = "done" /\ pc[2] = "done"
    /\ ~loc[1].listed /\ ~loc[2].listed
    /\ ReportsCreated(1) /\ ~result[2].changed
    /\ Conflicting /\ DesiredShown(args[2], remote[args[2].name])

ReportsDeleted(p) == result[p].msg = <<args[p].name, " has been deleted">>

\* C32: of two overlapping real runs with state absent on a name that existed
\* when the first started, at most one reports "<name> has been deleted", and
\* once both have returned the name is not in the listing.
C32_AtMostOneReportsDeleted ==
    TwoRealRuns("absent", TRUE)
    => /\ ~(ReportsDeleted(1) /\ ReportsDeleted(2))
       /\ pc[1] = "done" /\ pc[2] = "done"
            => /\ remote[args[1].name] = Absent
               /\ args[1].name \notin RemoteList(remote)

\* both runs saw the name in the listing and both sent a delete; the second was
\* answered with found false
C32_Witness ==
    /\ TwoRealRuns("absent", TRUE) /\ pc[1] = "done" /\ pc[2] = "done"
    /\ loc[1].listed /\ loc[2].listed
    /\ calls[1].delete = 1 /\ calls[2].delete = 1
    /\ ReportsDeleted(1) /\ ~result[2].changed

\* a real run with state present and update_password always on a user whose
\* compared fields were the desired ones when the run started, with no other
\* actor writing since
AlwaysOnUpToDateUser(p) ==
    /\ kind = "user" /\ args[p] # None /\ args[p].state = "present"
    /\ ~args[p].check_mode /\ args[p].want.update_password = "always"
    /\ meta[p].existed0 /\ meta[p].others0 = others
    /\ DesiredShown(args[p], meta[p].entry0)

\* C33: with update_password always on an existing user whose roles, full_name,
\* email, enabled and metadata are the desired ones, a real run still puts with
\* the password in the payload, which replaces the stored credential, and
\* returns changed false.
C33_PasswordOnlyChangeUnreported ==
    \A p \in Procs :
        AlwaysOnUpToDateUser(p)
        => /\ sent[p] # None
                => /\ "password" \in DOMAIN sent[p]
                   /\ sent[p].password = args[p].want.password
           /\ pc[p] = "done"
                => /\ calls[p].put = 1
                   /\ result[p] = InitResult
                   /\ remote[args[p].name].password = args[p].want.password
                   /\ remote[args[p].name].password_hash
                        # meta[p].entry0.password_hash

C33_Witness ==
    \E p \in Procs :
        /\ AlwaysOnUpToDateUser(p) /\ pc[p] = "done"
        /\ meta[p].entry0.password # args[p].want.password
        /\ remote[args[p].name].password = args[p].want.password
        /\ ~result[p].changed

=============================================================================
